---- MODULE Spec2Model ----
(***************************************************************************)
(* Model of latexbuild/build.py: class LatexBuild, its three wrappers      *)
(* build_pdf / build_html / build_docx and the driver run_latex.           *)
(*                                                                         *)
(* A path is a sequence of symbols: the directory, the pieces of the file  *)
(* name, and (last) the extension, so that str.startswith on paths is the  *)
(* prefix relation on sequences.  A text is a sequence of characters.      *)
(* The file system is a function from the paths of the existing files to   *)
(* their texts.  Two builds run against the same template, one step at a   *)
(* time, in any interleaving.                                              *)
(***************************************************************************)
EXTENDS Naturals, Sequences, FiniteSets

(* ------------------------------ bounds --------------------------------- *)

\* stage-A compiler invocations a build may issue before the model stops it
MaxPasses == 3

(* ----------------------- program constants ----------------------------- *)

\* random_str_uuid(1), random_str_uuid(2): lengths of the two sentinels
SentinelLenNew == 2

\* both sentinels drawn with the same length
SentinelLenOldSame == SentinelLenNew

SentinelLenOld == 1

(* ------------------------------ values --------------------------------- *)

Builds == {"b1", "b2"}

\* characters random strings and auxiliary files are made of
Chars == {"a", "b"}

\* the random tokens random_name_filepath may insert into a name: random
\* strings of one fixed length
Tokens == { <<"x">>, <<"y">> }

\* the extensions os.path.splitext recognises in this model
Exts == {".tex", ".aux", ".log", ".pdf", ".html", ".docx"}

\* LatexBuild.path_template = os.path.join(path_jinja2, template_name)
path_template == <<"T", "doc", ".tex">>

\* what the jinja2 renderer returns for the request's parameters
RenderedText == <<"t">>

\* the output paths a caller may request
OutPaths == { <<"T", "doc", ".pdf">>, <<"O", "out", ".html">>, <<"O", "out", ".docx">> }

\* an output file that exists before the build holds this text
OldText == <<"o">>

\* the texts a compiler may write to its output file, to its log
OutTexts == { <<"p">>, <<"q">> }
LogText == <<"l">>

\* the texts a compiler may write to the auxiliary file
AuxTexts == { <<>>, <<"a", "a">> }

\* the values of LatexBuild.cmd_latex a caller may configure
CmdLatexValues == {"pdflatex", "latex2rtf"}

Wrappers == {"build_pdf", "build_html", "build_docx"}

\* no command, no path, no text (Python's None and falsy empty list)
None == <<>>

\* a command is a sequence of words, a word is a sequence of symbols
Word(str) == << str >>

(* ------------------------- external collaborators ---------------------- *)

\* utils.random_str_uuid(n): some string of the requested length over the
\* characters cs
random_str_uuid(n, cs) == [1..n -> cs]

\* os.path.splitext: <<root, ext>>, ext empty when the path has none
splitext(p) ==
    IF Len(p) > 0 /\ p[Len(p)] \in Exts
    THEN << SubSeq(p, 1, Len(p) - 1), << p[Len(p)] >> >>
    ELSE << p, <<>> >>

\* os.path.dirname
dirname(p) == p[1]

\* str.startswith
startswith(s, prefix) ==
    /\ Len(prefix) <= Len(s)
    /\ SubSeq(s, 1, Len(prefix)) = prefix

\* utils.random_name_filepath(path): same directory, same extension, the
\* random token appended to the stem
random_name_filepath(p, tok) == splitext(p)[1] \o tok \o splitext(p)[2]

\* utils.read_file: the text of the file, absence signalled by a value that
\* is no text
NotFound == << "ENOENT" >>
read_file(files, p) == IF p \in DOMAIN files THEN files[p] ELSE NotFound

\* utils.list_filepathes_with_predicate(dir, predicate)
list_filepathes_with_predicate(files, dir, predicate) ==
    { f \in DOMAIN files : dirname(f) = dir /\ startswith(f, predicate) }

\* assertions.has_file_extension(path, ext): TRUE, or raises
has_file_extension(p, ext) == splitext(p)[2] = Word(ext)

\* the file a compiler binary produces next to its input (the family of
\* artifact of the invocation)
FamilyExt(bin) ==
    CASE bin = "pdflatex"  -> ".pdf"
      [] bin = "htlatex"   -> ".html"
      [] bin = "latex2rtf" -> ".docx"

(* ------------------------- file system updates ------------------------- *)

WriteFile(files, p, text) ==
    [q \in (DOMAIN files) \cup {p} |-> IF q = p THEN text ELSE files[q]]

RemoveFile(files, p) ==
    [q \in (DOMAIN files) \ {p} |-> files[q]]

\* shutil.move(src, dst) of an existing file
MoveFile(files, src, dst) ==
    IF src = dst THEN files
    ELSE RemoveFile(WriteFile(files, dst, files[src]), src)

(* ------------------------------- state --------------------------------- *)

VARIABLES
    fs,     \* the file system: path of each existing file |-> its text
    pc,     \* pc[i]: where build i stands in its wrapper / in run_latex
    self,   \* self[i]: the LatexBuild object and the wrapper's argument
    loc,    \* loc[i]: the local variables of run_latex
    comp,   \* comp[i]: the external compiler build i drives
    hist,   \* hist[i]: what build i has done so far (observation only)
    scn     \* the scenario: which builds are requested, what the callers
            \* configure and what the compilers may write

vars == << fs, pc, self, loc, comp, hist, scn >>

\* local variables of run_latex derived from path_template_random (93-100)
path_template_dir(i) == dirname(loc[i].path_template_random)
path_template_random_no_ext(i) == splitext(loc[i].path_template_random)[1]
path_template_random_aux(i) == path_template_random_no_ext(i) \o Word(".aux")
ext_outfile(i) == splitext(self[i].path_outfile)[2]
path_outfile_initial(i) == path_template_random_no_ext(i) \o ext_outfile(i)
path_template_random_log(i) == path_template_random_no_ext(i) \o Word(".log")

\* line 114: cmd = cmd_wo_infile + [path_template_random]
cmd(i) == Append(loc[i].cmd_wo_infile, loc[i].path_template_random)

\* line 124: cmd_word = cmd_docx + [path_template_random]
cmd_word(i) == Append(loc[i].cmd_docx, loc[i].path_template_random)

\* the stage-A invocations build i has issued
StageA(i) == SelectSeq(hist[i].calls, LAMBDA c : c.stage = "A")
StageB(i) == SelectSeq(hist[i].calls, LAMBDA c : c.stage = "B")

NoSelf == [wrapper |-> "none", cmd_latex |-> "none", path_outfile |-> None]

NoLoc == [ text_template |-> None, path_template_random |-> None,
           cmd_wo_infile |-> None, cmd_docx |-> None,
           old_aux |-> None, new_aux |-> None, path_gen |-> {} ]

\* hist[i].calls: the subprocess invocations, in order; reads: what line 120
\* read after each pass; sentinel: the second sentinel of line 115; exited:
\* the while loop was left; failed: the except clause ran; attempted: line
\* 128 was reached; moved: the text line 128 moved; cleanups: how often the
\* finally clause ran; before: the output file when the wrapper was called;
\* result and value: how the call ended ("text": it returned value)
NoHist == [ calls |-> <<>>, reads |-> <<>>, sentinel |-> None,
            exited |-> FALSE, failed |-> FALSE, attempted |-> FALSE,
            moved |-> None, cleanups |-> 0, before |-> None,
            result |-> "none", value |-> None ]

\* one build, every configuration and every compiler behaviour
OneBuild == [ builds |-> {"b1"}, cmd_latex |-> CmdLatexValues,
              chars |-> Chars, aux |-> AuxTexts, out |-> OutTexts ]

\* two builds side by side, the primary compiler left at its default
TwoBuilds == [ builds |-> Builds, cmd_latex |-> {"pdflatex"},
               chars |-> {"a"}, aux |-> { <<"a", "a">> }, out |-> { <<"p">> } ]

InitFiles(pre) ==
    [p \in {path_template} \cup pre |->
        IF p = path_template THEN <<"j">> ELSE OldText]

InitBuilds ==
    /\ pc = [i \in Builds |-> "idle"]
    /\ self = [i \in Builds |-> NoSelf]
    /\ loc = [i \in Builds |-> NoLoc]
    /\ comp = [i \in Builds |-> 0]
    /\ hist = [i \in Builds |-> NoHist]

Init ==
    /\ scn = OneBuild
    /\ \E pre \in { {}, OutPaths } : fs = InitFiles(pre)
    /\ InitBuilds

InitConc ==
    /\ scn = TwoBuilds
    /\ fs = InitFiles({})
    /\ InitBuilds

(* ------------------------------ wrappers ------------------------------- *)

\* lines 154, 166, 170: the extension each wrapper requires
WrapperExt(w) ==
    CASE w = "build_pdf"  -> ".pdf"
      [] w = "build_html" -> ".html"
      [] w = "build_docx" -> ".docx"

\* lines 155-158, 167, 171: the invocation each wrapper hands to run_latex
WrapperCmd(w, cmd_latex) ==
    CASE w = "build_pdf"  -> << Word(cmd_latex), Word("-interaction"), Word("nonstopmode") >>
      [] w = "build_html" -> << Word("htlatex") >>
      [] w = "build_docx" -> << Word("latex2rtf") >>

\* the wrapper goes on whatever the extension
WrapperProceedsUnchecked(w, path) == TRUE

\* lines 154, 166, 170: the wrapper goes on to run_latex only when the
\* assertion returns
WrapperProceeds(w, path) == has_file_extension(path, WrapperExt(w))

\* LatexBuild(...) is constructed (41-64) and one wrapper is called
Call(i) ==
    /\ pc[i] = "idle"
    /\ i \in scn.builds
    /\ \E w \in Wrappers, c \in scn.cmd_latex, p \in OutPaths :
          self' = [self EXCEPT ![i] =
                     [wrapper |-> w, cmd_latex |-> c, path_outfile |-> p]]
    /\ pc' = [pc EXCEPT ![i] = "assert"]
    /\ hist' = [hist EXCEPT ![i].before = read_file(fs, self'[i].path_outfile)]
    /\ UNCHANGED << fs, loc, comp, scn >>

\* assertions.has_file_extension(path_outfile, ext) returns
AssertOk(i) ==
    /\ pc[i] = "assert"
    /\ WrapperProceeds(self[i].wrapper, self[i].path_outfile)
    /\ pc' = [pc EXCEPT ![i] = "run_latex"]
    /\ UNCHANGED << fs, self, loc, comp, hist, scn >>

\* assertions.has_file_extension raises: the wrapper ends with the error
AssertRaises(i) ==
    /\ pc[i] = "assert"
    /\ ~ WrapperProceeds(self[i].wrapper, self[i].path_outfile)
    /\ pc' = [pc EXCEPT ![i] = "done"]
    /\ hist' = [hist EXCEPT ![i].result = "raised"]
    /\ UNCHANGED << fs, self, loc, comp, scn >>

(* ------------------------------ run_latex ------------------------------ *)

\* the special case taken whatever the length of the invocation
IsDocxCaseAnyLength(cmd_wo_infile) == cmd_wo_infile[1] = Word("latex2rtf")

\* line 103: the special case of MS Word
IsDocxCase(cmd_wo_infile) ==
    cmd_wo_infile[1] = Word("latex2rtf") /\ Len(cmd_wo_infile) = 1

\* random_name_filepath returns a name no other run holds
FreshTokens ==
    { tok \in Tokens :
        \A j \in Builds :
            loc[j].path_template_random # random_name_filepath(path_template, tok) }

\* lines 91-108: render the template, derive the paths, split a DOCX
\* request into stage A (the primary compiler) and stage B
Setup(i) ==
    /\ pc[i] = "run_latex"
    /\ \E tok \in FreshTokens :
         LET cmd_in == WrapperCmd(self[i].wrapper, self[i].cmd_latex)
             random == random_name_filepath(path_template, tok)
             initial == splitext(random)[1] \o ext_outfile(i)
             docx == IsDocxCase(cmd_in)
         IN loc' = [loc EXCEPT ![i] =
                [ @ EXCEPT !.text_template = RenderedText,
                           !.path_template_random = random,
                           !.cmd_docx = IF docx
                                        THEN cmd_in \o << Word("-o"), initial >>
                                        ELSE None,
                           !.cmd_wo_infile = IF docx
                                             THEN << Word(self[i].cmd_latex) >>
                                             ELSE cmd_in ]]
    /\ pc' = [pc EXCEPT ![i] = "try"]
    /\ UNCHANGED << fs, self, comp, hist, scn >>

\* the temp source is opened before the template is rendered
RenderRaisesLate(i) ==
    /\ pc[i] = "run_latex"
    /\ \E tok \in FreshTokens :
          /\ loc' = [loc EXCEPT ![i].path_template_random =
                        random_name_filepath(path_template, tok)]
          /\ fs' = WriteFile(fs, loc'[i].path_template_random, None)
    /\ pc' = [pc EXCEPT ![i] = "done"]
    /\ hist' = [hist EXCEPT ![i].result = "raised"]
    /\ UNCHANGED << self, comp, scn >>

\* line 91: render_latex_template raises; run_latex ends with the error
\* before the try statement is entered
RenderRaises(i) ==
    /\ pc[i] = "run_latex"
    /\ pc' = [pc EXCEPT ![i] = "done"]
    /\ hist' = [hist EXCEPT ![i].result = "raised"]
    /\ UNCHANGED << fs, self, loc, comp, scn >>

\* lines 135-136: an exception of the build body is caught and logged, the
\* finally clause comes next
Except(h) == [h EXCEPT !.failed = TRUE]

\* lines 112-115: write the temp source, draw the two sentinels
WriteTemp(i) ==
    /\ pc[i] = "try"
    /\ fs' = WriteFile(fs, loc[i].path_template_random, loc[i].text_template)
    /\ \E o \in random_str_uuid(SentinelLenOld, scn.chars),
          n \in random_str_uuid(SentinelLenNew, scn.chars) :
          loc' = [loc EXCEPT ![i].old_aux = o, ![i].new_aux = n]
    /\ hist' = [hist EXCEPT ![i].sentinel = loc'[i].new_aux]
    /\ pc' = [pc EXCEPT ![i] = "while"]
    /\ UNCHANGED << self, comp, scn >>

\* line 112: open() raises, nothing is written
WriteTempRaises(i) ==
    /\ pc[i] = "try"
    /\ hist' = [hist EXCEPT ![i] = Except(@)]
    /\ pc' = [pc EXCEPT ![i] = "finally"]
    /\ UNCHANGED << fs, self, loc, comp, scn >>

\* the test of line 116 inverted
LoopContinuesWhileEqual(old_aux, new_aux) == old_aux = new_aux

\* line 116: while old_aux != new_aux
LoopContinues(old_aux, new_aux) == old_aux # new_aux

\* the test of line 123 inverted
HasStageBInverted(cmd_docx) == cmd_docx = None

\* line 123: if cmd_docx
HasStageB(cmd_docx) == cmd_docx # None

While(i) ==
    /\ pc[i] = "while"
    /\ pc' = [pc EXCEPT ![i] =
                IF LoopContinues(loc[i].old_aux, loc[i].new_aux) THEN "invoke"
                ELSE IF HasStageB(loc[i].cmd_docx) THEN "stageB"
                ELSE "move"]
    /\ hist' = [hist EXCEPT ![i].exited = (pc'[i] # "invoke")]
    /\ UNCHANGED << fs, self, loc, comp, scn >>

\* what a compiler run leaves in the directory of its input: a log, the
\* auxiliary file with text aux (NotFound: none is written), the output
\* file with text out (None: none is written)
CompilerWrites(files, i, bin, aux, out) ==
    LET f1 == WriteFile(files, path_template_random_log(i), LogText)
        f2 == IF aux = NotFound THEN f1
              ELSE WriteFile(f1, path_template_random_aux(i), aux)
    IN  IF out = None THEN f2
        ELSE WriteFile(f2, path_template_random_no_ext(i) \o Word(FamilyExt(bin)), out)

\* the auxiliary texts the compiler may leave at its next run: any text, or
\* still no file; once it has stabilised (comp[i] > 0) the same as before
NextAux(i) ==
    LET now == read_file(fs, path_template_random_aux(i))
    IN  IF comp[i] > 0 THEN {now}
        ELSE scn.aux \cup (IF now = NotFound THEN {NotFound} ELSE {})

\* line 118: check_output_cwd(cmd, path_template_dir) returns
Invoke(i) ==
    /\ pc[i] = "invoke"
    /\ Len(StageA(i)) < MaxPasses
    /\ \E aux \in NextAux(i), out \in scn.out \cup {None}, settles \in BOOLEAN :
         LET k == Len(StageA(i)) + 1
             now == read_file(fs, path_template_random_aux(i))
         IN /\ settles => comp[i] = 0 /\ (k = 1 \/ aux # now)
            /\ fs' = CompilerWrites(fs, i, cmd(i)[1][1], aux, out)
            /\ comp' = [comp EXCEPT ![i] = IF settles THEN k ELSE @]
    /\ hist' = [hist EXCEPT ![i].calls =
                   Append(@, [stage |-> "A", cmd |-> cmd(i), ok |-> TRUE])]
    /\ pc' = [pc EXCEPT ![i] = "read"]
    /\ UNCHANGED << self, loc, scn >>

\* the failed invocation is caught inside the loop and issued again
InvokeRaisesRetry(i) ==
    /\ pc[i] = "invoke"
    /\ Len(StageA(i)) < MaxPasses
    /\ hist' = [hist EXCEPT ![i].calls =
                   Append(@, [stage |-> "A", cmd |-> cmd(i), ok |-> FALSE])]
    /\ UNCHANGED << fs, pc, self, loc, comp, scn >>

\* line 118: check_output_cwd raises (non-zero exit, or the binary cannot
\* be launched); the compiler may have left a log behind
InvokeRaises(i) ==
    /\ pc[i] = "invoke"
    /\ Len(StageA(i)) < MaxPasses
    /\ \E log \in BOOLEAN :
          fs' = IF log THEN WriteFile(fs, path_template_random_log(i), LogText)
                ELSE fs
    /\ hist' = [hist EXCEPT ![i] =
                   Except([@ EXCEPT !.calls =
                       Append(@, [stage |-> "A", cmd |-> cmd(i), ok |-> FALSE])])]
    /\ pc' = [pc EXCEPT ![i] = "finally"]
    /\ UNCHANGED << self, loc, comp, scn >>

\* current is read afresh, previous is left as it was
ShiftAuxNoShift(old_aux, new_aux, read) == << old_aux, read >>

\* the file is read into both variables
ShiftAuxBoth(old_aux, new_aux, read) == << read, read >>

\* line 120: old_aux, new_aux = new_aux, read_file(path_template_random_aux)
ShiftAux(old_aux, new_aux, read) == << new_aux, read >>

ReadAux(i) ==
    /\ pc[i] = "read"
    /\ LET read == read_file(fs, path_template_random_aux(i))
           pair == ShiftAux(loc[i].old_aux, loc[i].new_aux, read)
       IN /\ loc' = [loc EXCEPT ![i].old_aux = pair[1], ![i].new_aux = pair[2]]
          /\ hist' = [hist EXCEPT ![i].reads = Append(@, read)]
    /\ pc' = [pc EXCEPT ![i] = "while"]
    /\ UNCHANGED << fs, self, comp, scn >>

\* lines 124-126: the stage-B invocation returns
InvokeDocx(i) ==
    /\ pc[i] = "stageB"
    /\ \E out \in scn.out \cup {None} :
          fs' = IF out = None THEN fs
                ELSE WriteFile(fs, cmd_word(i)[3], out)
    /\ hist' = [hist EXCEPT ![i].calls =
                   Append(@, [stage |-> "B", cmd |-> cmd_word(i), ok |-> TRUE])]
    /\ pc' = [pc EXCEPT ![i] = "move"]
    /\ UNCHANGED << self, loc, comp, scn >>

\* line 125: the stage-B invocation raises
InvokeDocxRaises(i) ==
    /\ pc[i] = "stageB"
    /\ hist' = [hist EXCEPT ![i] =
                   Except([@ EXCEPT !.calls =
                       Append(@, [stage |-> "B", cmd |-> cmd_word(i), ok |-> FALSE])])]
    /\ pc' = [pc EXCEPT ![i] = "finally"]
    /\ UNCHANGED << fs, self, loc, comp, scn >>

\* line 128: shutil.move(path_outfile_initial, path_outfile)
Move(i) ==
    /\ pc[i] = "move"
    /\ path_outfile_initial(i) \in DOMAIN fs
    /\ fs' = MoveFile(fs, path_outfile_initial(i), self[i].path_outfile)
    /\ hist' = [hist EXCEPT ![i].moved = fs[path_outfile_initial(i)],
                             ![i].attempted = TRUE]
    /\ pc' = [pc EXCEPT ![i] = "finally"]
    /\ UNCHANGED << self, loc, comp, scn >>

\* line 128: shutil.move raises, the expected initial output does not exist
MoveRaises(i) ==
    /\ pc[i] = "move"
    /\ path_outfile_initial(i) \notin DOMAIN fs
    /\ hist' = [hist EXCEPT ![i] = Except([@ EXCEPT !.attempted = TRUE])]
    /\ pc' = [pc EXCEPT ![i] = "finally"]
    /\ UNCHANGED << fs, self, loc, comp, scn >>

\* the cleanup asks for the temp source only
CleanupPredicateSourceOnly(i) == loc[i].path_template_random

\* the cleanup asks for the files named after the template itself
CleanupPredicateTemplate(i) == splitext(path_template)[1]

\* line 142: the predicate of the cleanup
CleanupPredicate(i) == path_template_random_no_ext(i)

\* the cleanup placed in an else clause: skipped after an exception
FinallyOnlyOnSuccess(i) ==
    /\ pc[i] = "finally"
    /\ loc' = [loc EXCEPT ![i].path_gen =
                 IF hist[i].failed THEN {}
                 ELSE list_filepathes_with_predicate(fs, path_template_dir(i),
                                                     CleanupPredicate(i))]
    /\ hist' = [hist EXCEPT ![i].cleanups = IF hist[i].failed THEN @ ELSE @ + 1]
    /\ pc' = [pc EXCEPT ![i] = "remove"]
    /\ UNCHANGED << fs, self, comp, scn >>

\* lines 140-143: list the files of the run
Finally(i) ==
    /\ pc[i] = "finally"
    /\ loc' = [loc EXCEPT ![i].path_gen =
                 list_filepathes_with_predicate(fs, path_template_dir(i),
                                                CleanupPredicate(i))]
    /\ hist' = [hist EXCEPT ![i].cleanups = @ + 1]
    /\ pc' = [pc EXCEPT ![i] = "remove"]
    /\ UNCHANGED << fs, self, comp, scn >>

\* lines 144-145: os.remove(path_gen_file), one file of the list
Remove(i) ==
    /\ pc[i] = "remove"
    /\ loc[i].path_gen # {}
    /\ LET path_gen_file == CHOOSE f \in loc[i].path_gen : TRUE
       IN /\ path_gen_file \in DOMAIN fs
          /\ fs' = RemoveFile(fs, path_gen_file)
          /\ loc' = [loc EXCEPT ![i].path_gen = @ \ {path_gen_file}]
    /\ UNCHANGED << pc, self, comp, hist, scn >>

\* line 146: return text_template
Return(i) ==
    /\ pc[i] = "remove"
    /\ loc[i].path_gen = {}
    /\ hist' = [hist EXCEPT ![i].result = "text",
                             ![i].value = loc[i].text_template]
    /\ pc' = [pc EXCEPT ![i] = "done"]
    /\ UNCHANGED << fs, self, loc, comp, scn >>

Next ==
    \E i \in Builds :
        \/ Call(i)
        \/ AssertOk(i)
        \/ AssertRaises(i)
        \/ Setup(i)
        \/ RenderRaises(i)
        \/ WriteTemp(i)
        \/ WriteTempRaises(i)
        \/ While(i)
        \/ Invoke(i)
        \/ InvokeRaises(i)
        \/ ReadAux(i)
        \/ InvokeDocx(i)
        \/ InvokeDocxRaises(i)
        \/ Move(i)
        \/ MoveRaises(i)
        \/ Finally(i)
        \/ Remove(i)
        \/ Return(i)

Spec == Init /\ [][Next]_vars

SpecConc == InitConc /\ [][Next]_vars

(* ------------------------------- claims -------------------------------- *)

\* build i has entered run_latex far enough to own a temporary stem
HasStem(i) == loc[i].path_template_random # None

\* file f lies in the template directory and its name begins with the
\* temporary stem of build i
StemFile(f, i) ==
    /\ HasStem(i)
    /\ dirname(f) = dirname(path_template)
    /\ startswith(f, splitext(loc[i].path_template_random)[1])

\* C1: once run_latex has ended, on whatever path, no file of the template
\* directory has a name that begins with the run's temporary stem.
C1_NoStemFileRemains ==
    \A i \in Builds :
        (pc[i] = "done" /\ HasStem(i)) =>
            \A f \in DOMAIN fs : ~ StemFile(f, i)

\* a build ended after a successful pass was followed by a failing one, so
\* that the temp source and the byproducts of a pass had to be removed
C1_Witness ==
    \E i \in Builds :
        /\ pc[i] = "done" /\ hist[i].failed /\ hist[i].cleanups = 1
        /\ Len(hist[i].calls) = 2
        /\ hist[i].calls[1].ok /\ ~ hist[i].calls[2].ok

\* C2: when a step of the build body failed, run_latex ends with an error
\* outcome and does not return the rendered text.
C2_FailureReported ==
    \A i \in Builds :
        (pc[i] = "done" /\ hist[i].failed) => hist[i].result = "raised"

\* the value new_aux held before pass k of build i: the second sentinel
\* before the first pass, what the previous pass read otherwise
Held(i, k) == IF k = 1 THEN hist[i].sentinel ELSE hist[i].reads[k - 1]

\* pass k of build i read the very value held before it
Repeats(i, k) == hist[i].reads[k] = Held(i, k)

\* build i left its loop and its compiler stabilises after exactly
\* comp[i] invocations
ExitedStable(i) == hist[i].exited /\ comp[i] > 0

\* C3 as stated: a compiler that stabilises after exactly N invocations is
\* invoked exactly N times before the build finalizes.
C3_ExactlyN ==
    \A i \in Builds :
        ExitedStable(i) => Len(StageA(i)) = comp[i]

\* C3, amended: a compiler that stabilises after exactly N invocations is
\* invoked at most N + 1 times before the build finalizes: exactly N + 1
\* times, unless one of the passes 1..N read a value equal to the one held
\* before it, and then the loop ends at the first such pass.
C3_AtMostNPlusOne ==
    \A i \in Builds :
        ExitedStable(i) =>
            LET n == Len(StageA(i))
                early == { k \in 1..comp[i] : k <= n /\ Repeats(i, k) }
            IN  /\ n <= comp[i] + 1
                /\ Len(hist[i].reads) = n
                /\ (early = {}) <=> (n = comp[i] + 1)
                /\ (early # {}) => (n \in early /\ \A k \in early : n <= k)

\* a compiler that stabilised at its second invocation was invoked three
\* times before the loop was left
C3_Witness ==
    \E i \in Builds :
        /\ ExitedStable(i) /\ comp[i] = 2 /\ Len(StageA(i)) = 3
        /\ hist[i].reads[1] # hist[i].reads[2]
        /\ pc[i] = "finally" /\ hist[i].moved # None

\* C4: while every invocation succeeds and each pass leaves an auxiliary
\* content different from the one the pass before left, the loop is not
\* left.
C4_NeverStableNeverExits ==
    \A i \in Builds :
        ( /\ \A k \in 1..Len(hist[i].calls) : hist[i].calls[k].ok
          /\ \A k \in 2..Len(hist[i].reads) :
                 hist[i].reads[k] # hist[i].reads[k - 1] )
        => ~ hist[i].exited

\* the step is a step of build i
Acts(i) == pc'[i] # pc[i] \/ loc'[i] # loc[i]

\* the files that exist before the step and not after it
Deleted == (DOMAIN fs) \ (DOMAIN fs')

\* C5: with two builds interleaved, a step of the cleanup of one build
\* deletes only files whose names begin with that build's own stem, and a
\* file whose name begins with a build's stem disappears only by a step of
\* that very build.
C5_CleanupOwnFilesOnly ==
    [][ \A i \in Builds :
          /\ (Acts(i) /\ pc[i] = "remove") => \A f \in Deleted : StemFile(f, i)
          /\ \A f \in Deleted : StemFile(f, i) => Acts(i) ]_vars

\* one build is in the middle of its cleanup, some of its files removed and
\* some still to remove, while the other build stands between a compiler
\* run and the reading of its auxiliary file, its files in place
C5_Witness ==
    \E i, j \in Builds :
        /\ i # j
        /\ pc[i] = "remove"
        /\ loc[i].path_gen # {}
        /\ loc[i].path_template_random \notin DOMAIN fs
        /\ pc[j] = "read"
        /\ loc[j].path_template_random \in DOMAIN fs
        /\ path_template_random_aux(j) \in DOMAIN fs

\* the extension of the family of each wrapper
Family(w) ==
    CASE w = "build_pdf"  -> ".pdf"
      [] w = "build_html" -> ".html"
      [] w = "build_docx" -> ".docx"

\* build i was called through a wrapper with an output path whose
\* extension is not the one of the wrapper's family
Mismatch(i) ==
    /\ self[i].wrapper \in Wrappers
    /\ self[i].path_outfile[Len(self[i].path_outfile)] # Family(self[i].wrapper)

\* C6: a wrapper called with an output path of another family fails before
\* anything is done: no temporary name is drawn, no temp source or other
\* file is created, no subprocess is invoked, and the call ends with an
\* error.
C6_MismatchFailsFirst ==
    \A i \in Builds :
        Mismatch(i) =>
            /\ pc[i] \in {"assert", "done"}
            /\ pc[i] = "done" => hist[i].result = "raised"
            /\ ~ HasStem(i)
            /\ hist[i].calls = <<>>
            /\ \A f \in DOMAIN fs : f = path_template \/ f \in OutPaths

\* the DOCX wrapper was called with a .pdf path and has ended
C6_Witness ==
    \E i \in Builds :
        /\ Mismatch(i) /\ pc[i] = "done"
        /\ self[i].wrapper = "build_docx"
        /\ self[i].path_outfile = <<"T", "doc", ".pdf">>

\* build i is a DOCX build
IsDocx(i) == self[i].wrapper = "build_docx"

\* the loop of build i has been left and stage B, if any, is behind
PastStageB(i) ==
    hist[i].exited /\ pc[i] \in {"move", "finally", "remove", "done"}

\* C7: in a DOCX build every invocation but stage B runs the primary
\* compiler on the temp source; stage B is invoked at most once, as the last
\* invocation, after one or more successful stage-A invocations and after
\* the loop was left with the last content read equal to the one held
\* before; it is the DOCX binary with -o, the initial output path and the
\* temp source; once the loop is left and the build has moved on, stage B
\* has been invoked exactly once; after a failed stage-A invocation it is
\* never invoked.
C7_DocxStages ==
    \A i \in Builds :
        (IsDocx(i) /\ HasStem(i)) =>
            LET calls == hist[i].calls
                n == Len(calls)
                random == loc[i].path_template_random
            IN  /\ Len(StageB(i)) <= 1
                /\ \A k \in 1..n :
                      calls[k].stage = "A" =>
                          calls[k].cmd = << Word(self[i].cmd_latex), random >>
                /\ \A k \in 1..n :
                      calls[k].stage = "B" =>
                          /\ k = n /\ k > 1
                          /\ \A m \in 1..(k - 1) :
                                calls[m].stage = "A" /\ calls[m].ok
                          /\ hist[i].exited
                          /\ Len(hist[i].reads) = k - 1
                          /\ Repeats(i, k - 1)
                          /\ calls[k].cmd =
                                << Word("latex2rtf"), Word("-o"),
                                   splitext(random)[1] \o Word(".docx"), random >>
                /\ PastStageB(i) => Len(StageB(i)) = 1
                /\ (\E k \in 1..n : calls[k].stage = "A" /\ ~ calls[k].ok)
                      => Len(StageB(i)) = 0

\* a DOCX build went through two stage-A passes and then stage B
C7_Witness ==
    \E i \in Builds :
        /\ IsDocx(i) /\ pc[i] = "move"
        /\ Len(hist[i].calls) = 3
        /\ hist[i].calls[3].stage = "B" /\ hist[i].calls[3].ok

\* build i is a PDF or an HTML build
IsPdfOrHtml(i) == self[i].wrapper \in {"build_pdf", "build_html"}

\* build i has taken the two-stage path
TwoStage(i) == loc[i].cmd_docx # None \/ Len(StageB(i)) > 0

\* C8 as stated: whatever cmd_latex is, a PDF or HTML build never invokes
\* the DOCX-producing binary and never takes the two-stage path.
C8_NeverDocxBinary ==
    \A i \in Builds :
        IsPdfOrHtml(i) =>
            /\ ~ TwoStage(i)
            /\ \A k \in 1..Len(hist[i].calls) :
                  hist[i].calls[k].cmd[1] # Word("latex2rtf")

\* C8, amended: a PDF or HTML build never takes the two-stage path, and
\* every subprocess it invokes runs the configured primary compiler (PDF)
\* or the HTML compiler (HTML); the DOCX-producing binary is therefore
\* invoked only by a PDF build whose cmd_latex names that binary.
C8_OnlyOwnCompiler ==
    \A i \in Builds :
        IsPdfOrHtml(i) =>
            /\ ~ TwoStage(i)
            /\ \A k \in 1..Len(hist[i].calls) :
                  LET bin == hist[i].calls[k].cmd[1]
                  IN  /\ self[i].wrapper = "build_pdf" => bin = Word(self[i].cmd_latex)
                      /\ self[i].wrapper = "build_html" => bin = Word("htlatex")
                      /\ bin = Word("latex2rtf") =>
                            /\ self[i].wrapper = "build_pdf"
                            /\ self[i].cmd_latex = "latex2rtf"

\* a PDF build configured with the DOCX binary as primary compiler has
\* invoked it twice, on the one-stage path
C8_Witness ==
    \E i \in Builds :
        /\ self[i].wrapper = "build_pdf" /\ self[i].cmd_latex = "latex2rtf"
        /\ Len(hist[i].calls) = 2
        /\ loc[i].cmd_docx = None /\ HasStem(i)

\* C9: the move is attempted only after the loop was left with previous
\* equal to current and, in a DOCX build, after stage B succeeded; as long
\* as nothing was moved, and so in every build that failed earlier, the
\* requested output path is as it was when the build was requested.
C9_MoveOnlyAfterConvergence ==
    \A i \in Builds :
        /\ (hist[i].attempted \/ pc[i] = "move") =>
              /\ hist[i].exited
              /\ loc[i].old_aux = loc[i].new_aux
              /\ \A k \in 1..Len(hist[i].calls) : hist[i].calls[k].ok
              /\ IsDocx(i) => Len(StageB(i)) = 1
        /\ (hist[i].failed /\ pc[i] # "move" /\ ~ hist[i].attempted) =>
              hist[i].moved = None
        /\ (self[i].wrapper \in Wrappers /\ hist[i].moved = None) =>
              read_file(fs, self[i].path_outfile) = hist[i].before

\* a DOCX build whose stage B failed has ended, the existing output file
\* untouched
C9_Witness ==
    \E i \in Builds :
        /\ IsDocx(i) /\ pc[i] = "done" /\ hist[i].failed
        /\ Len(StageB(i)) = 1 /\ ~ hist[i].attempted
        /\ hist[i].before = OldText

\* build i has ended without a failure
Succeeded(i) == pc[i] = "done" /\ hist[i].result = "text" /\ ~ hist[i].failed

\* C10: once the output is moved it is no longer at the initial location;
\* after a successful build the file at the requested path holds the text
\* the compiler left at the initial location, the cleanup has not removed
\* it, and the value returned is the renderer's output.
C10_RoundTrip ==
    \A i \in Builds :
        /\ hist[i].moved # None =>
              /\ path_outfile_initial(i) \notin DOMAIN fs
              /\ hist[i].moved \in OutTexts
        /\ Succeeded(i) =>
              /\ hist[i].moved # None
              /\ self[i].path_outfile \in DOMAIN fs
              /\ fs[self[i].path_outfile] = hist[i].moved
              /\ hist[i].value = RenderedText

\* a PDF build next to its template has succeeded, replacing an older
\* output file
C10_Witness ==
    \E i \in Builds :
        /\ Succeeded(i)
        /\ self[i].path_outfile = <<"T", "doc", ".pdf">>
        /\ hist[i].before = OldText
        /\ fs[self[i].path_outfile] = <<"q">>

\* the call of build i got past the wrapper's assertion and ended with an
\* error: the renderer raised
RenderFailed(i) ==
    /\ self[i].wrapper \in Wrappers /\ ~ Mismatch(i)
    /\ pc[i] = "done" /\ hist[i].result = "raised"

\* C11: when the renderer raises, run_latex ends with that error at once:
\* no temporary name was drawn and no temp source or other file created, no
\* subprocess was invoked, the output path is as it was, and the cleanup
\* did not run and had nothing to remove.
C11_RenderErrorSurfaces ==
    \A i \in Builds :
        RenderFailed(i) =>
            /\ ~ HasStem(i)
            /\ ~ hist[i].failed
            /\ hist[i].calls = <<>>
            /\ hist[i].cleanups = 0
            /\ hist[i].value = None
            /\ read_file(fs, self[i].path_outfile) = hist[i].before
            /\ \A f \in DOMAIN fs : f = path_template \/ f \in OutPaths

\* the renderer raised in an HTML build whose output file already existed
C11_Witness ==
    \E i \in Builds :
        /\ RenderFailed(i)
        /\ self[i].wrapper = "build_html"
        /\ hist[i].before = OldText

\* C12: at every loop test after a pass, previous is the value current held
\* before that pass and current is the auxiliary content as it is in the
\* file system; the loop goes on to another pass only when the two differ,
\* and it is left after pass k only when the content read after pass k
\* equals the value held before it, no earlier pass having read such a
\* value.
C12_ExitIffPreviousEqualsCurrent ==
    \A i \in Builds :
        LET n == Len(hist[i].reads)
        IN  /\ (pc[i] = "while" /\ n >= 1) =>
                  /\ loc[i].old_aux = Held(i, n)
                  /\ loc[i].new_aux = hist[i].reads[n]
                  /\ loc[i].new_aux = read_file(fs, path_template_random_aux(i))
            /\ (pc[i] \in {"invoke", "read"} /\ n >= 1) =>
                  /\ ~ hist[i].exited
                  /\ \A k \in 1..n : ~ Repeats(i, k)
            /\ hist[i].exited =>
                  /\ n >= 1
                  /\ n = Len(StageA(i))
                  /\ Repeats(i, n)
                  /\ \A k \in 1..(n - 1) : ~ Repeats(i, k)

\* a DOCX build left its loop after the second pass, which read what the
\* first pass had read
C12_Witness ==
    \E i \in Builds :
        /\ pc[i] = "stageB" /\ hist[i].exited
        /\ Len(hist[i].reads) = 2
        /\ hist[i].reads[1] = hist[i].reads[2]
        /\ hist[i].reads[1] # hist[i].sentinel

\* C13: at the first loop test the two sentinels differ, so the loop is
\* never left, and neither stage B, the move nor the cleanup is reached
\* after the temp source was written, before the compiler was invoked.
C13_SentinelsForceFirstPass ==
    \A i \in Builds :
        /\ (pc[i] = "while" /\ hist[i].reads = <<>>) =>
              /\ loc[i].old_aux # loc[i].new_aux
              /\ loc[i].new_aux = hist[i].sentinel
        /\ (hist[i].exited \/ pc[i] \in {"stageB", "move"}) =>
              /\ Len(StageA(i)) >= 1
              /\ hist[i].calls[1].stage = "A"
        /\ (hist[i].sentinel # None /\ pc[i] \in {"finally", "remove", "done"}) =>
              Len(StageA(i)) >= 1

\* the first pass left an auxiliary file equal to the second sentinel and
\* the loop was left after that one invocation
C13_Witness ==
    \E i \in Builds :
        /\ hist[i].exited /\ pc[i] = "move"
        /\ Len(hist[i].calls) = 1
        /\ hist[i].reads = << hist[i].sentinel >>

\* C14: what the loop compares tells a missing auxiliary file from an
\* existing one: current is NotFound exactly when the file does not exist;
\* the loop is never left after a single invocation that left no auxiliary
\* file, and never left on a comparison of a missing file with an existing
\* empty one.
C14_AbsenceIsNotConvergence ==
    \A i \in Builds :
        LET n == Len(hist[i].reads)
            aux == path_template_random_aux(i)
        IN  /\ (pc[i] = "while" /\ n >= 1) =>
                  /\ (loc[i].new_aux = NotFound) <=> (aux \notin DOMAIN fs)
                  /\ (aux \in DOMAIN fs) => loc[i].new_aux = fs[aux]
            /\ (hist[i].exited /\ n = 1) => hist[i].reads[1] # NotFound
            /\ hist[i].exited =>
                  /\ ~ (hist[i].reads[n] = NotFound /\ Held(i, n) = <<>>)
                  /\ ~ (hist[i].reads[n] = <<>> /\ Held(i, n) = NotFound)
                  /\ (hist[i].reads[n] = NotFound) => (n >= 2 /\ Held(i, n) = NotFound)

\* no auxiliary file after the first pass, an empty one after the second:
\* the loop went on and was left only after the third pass read the empty
\* file again
C14_Witness ==
    \E i \in Builds :
        /\ hist[i].exited
        /\ hist[i].reads = << NotFound, <<>>, <<>> >>
        /\ Len(StageA(i)) = 3

\* build i has entered the try statement of run_latex
InBody(i) == HasStem(i) /\ pc[i] # "try"

\* the finally clause of build i has started
CleanupStarted(i) == hist[i].cleanups >= 1

\* C15: in a build that entered the build body the cleanup runs exactly
\* once and last: it has run once when the build is removing files or has
\* returned, and not at all before; it starts only after a move or after
\* the first error; and once it has started the build invokes no compiler,
\* attempts no move and does not write its temp source again.
C15_CleanupOnceAndLast ==
    /\ [] (\A i \in Builds :
             /\ hist[i].cleanups <= 1
             /\ InBody(i) =>
                   (CleanupStarted(i) <=> pc[i] \in {"remove", "done"})
             /\ ~ InBody(i) => ~ CleanupStarted(i))
    /\ [][ \A i \in Builds :
             /\ (hist'[i].cleanups # hist[i].cleanups) =>
                   /\ pc[i] = "finally"
                   /\ hist[i].failed \/ hist[i].moved # None
                   /\ ~ (hist[i].failed /\ hist[i].moved # None)
             /\ CleanupStarted(i) =>
                   /\ hist'[i].calls = hist[i].calls
                   /\ hist'[i].attempted = hist[i].attempted
                   /\ hist'[i].moved = hist[i].moved
                   /\ hist'[i].cleanups = hist[i].cleanups
                   /\ loc[i].path_template_random \notin DOMAIN fs =>
                         loc[i].path_template_random \notin DOMAIN fs'
                   /\ read_file(fs', self[i].path_outfile) =
                         read_file(fs, self[i].path_outfile) ]_vars

\* the cleanup of a build whose stage-B invocation failed is under way,
\* files still to remove
C15_Witness ==
    \E i \in Builds :
        /\ pc[i] = "remove" /\ hist[i].cleanups = 1
        /\ loc[i].path_gen # {}
        /\ hist[i].failed /\ Len(StageB(i)) = 1

\* C16: a failed invocation is the last subprocess invocation of its build
\* and no move follows it; stage B is invoked at most once; so every
\* invocation that is followed by another one is a successful stage-A pass.
C16_NoRetryAfterFailure ==
    \A i \in Builds :
        LET calls == hist[i].calls
            n == Len(calls)
        IN  /\ \A k \in 1..n :
                  ~ calls[k].ok =>
                      /\ k = n
                      /\ hist[i].failed
                      /\ ~ hist[i].attempted
                      /\ hist[i].moved = None
                      /\ pc[i] \in {"finally", "remove", "done"}
            /\ \A k \in 1..(n - 1) : calls[k].stage = "A" /\ calls[k].ok
            /\ Len(StageB(i)) <= 1

\* the third stage-A invocation failed after two successful ones and the
\* build has ended
C16_Witness ==
    \E i \in Builds :
        /\ pc[i] = "done"
        /\ Len(hist[i].calls) = 3
        /\ hist[i].calls[2].ok /\ ~ hist[i].calls[3].ok
        /\ hist[i].calls[3].stage = "A"

====
